---- MODULE Spec2Model ----
(***************************************************************************)
(* LiberaDebt (src/main.go): obligations spreadsheet -> prompt -> streamed *)
(* Ollama reply -> advice file.                                            *)
(*                                                                         *)
(* Text is a sequence of symbols: one-character strings for what is read, *)
(* parsed or searched (<<"1",".","5">> is "1.5"), one string for a fixed   *)
(* piece of text of the program (a message, a piece of a template).        *)
(* A float64 is [nan |-> FALSE, v |-> n], n counting units of 1/Scale, or  *)
(* the value NaN.                                                          *)
(***************************************************************************)
EXTENDS Integers, Sequences, FiniteSets, TLC

\* ------------------------------------------------------------------------
\* Bounds of the model
\* ------------------------------------------------------------------------
MaxDataRows == 2      \* data rows below the header row of the sheet
MaxChunks == 2        \* chunks the backend delivers in one exchange
FracDigits == 5       \* decimal places a modelled float64 keeps

\* ------------------------------------------------------------------------
\* Text and number helpers
\* ------------------------------------------------------------------------
RECURSIVE Pow10(_)
Pow10(n) == IF n = 0 THEN 1 ELSE 10 * Pow10(n - 1)

Scale == Pow10(FracDigits)

Flt(n) == [nan |-> FALSE, v |-> n]

NaN == [nan |-> TRUE, v |-> 0]

Abs(n) == IF n < 0 THEN -n ELSE n

IsSpace(c) == c \in {" ", "\t", "\n"}

Digits == <<"0", "1", "2", "3", "4", "5", "6", "7", "8", "9">>

IsDigit(c) == \E d \in 1..10 : Digits[d] = c

DigitVal(c) == (CHOOSE d \in 1..10 : Digits[d] = c) - 1

\* A TrimSpace that trims nothing.
TrimNothing(s) == s

\* strings.TrimSpace
RECURSIVE TrimLeft(_)
TrimLeft(s) == IF s # <<>> /\ IsSpace(Head(s)) THEN TrimLeft(Tail(s)) ELSE s

RECURSIVE TrimRight(_)
TrimRight(s) ==
    IF s # <<>> /\ IsSpace(s[Len(s)]) THEN TrimRight(SubSeq(s, 1, Len(s) - 1)) ELSE s

TrimSpace(s) == TrimRight(TrimLeft(s))

\* The value of a run of decimal digits, read left to right.
RECURSIVE DigitsValue(_)
DigitsValue(s) ==
    IF s = <<>> THEN 0 ELSE 10 * DigitsValue(SubSeq(s, 1, Len(s) - 1)) + DigitVal(s[Len(s)])

AllDigits(s) == \A k \in 1..Len(s) : IsDigit(s[k])

\* strconv.ParseFloat(s, 64) on the decimal grammar [+-]?digits[.digits] (at
\* least one digit on one side of the point) and on the special value "NaN".
\* Decimals beyond FracDigits are dropped, as float64 drops what it cannot hold.
\* The result is [ok |-> TRUE, val |-> v] or [ok |-> FALSE]; anything else,
\* the empty string and surrounding spaces included, is a syntax error.
ParseFloat(s) ==
    LET signed == s # <<>> /\ Head(s) \in {"+", "-"}
        body == IF signed THEN Tail(s) ELSE s
        neg == signed /\ Head(s) = "-"
        dots == {k \in 1..Len(body) : body[k] = "."}
        dot == IF dots = {} THEN Len(body) + 1 ELSE CHOOSE k \in dots : \A j \in dots : k <= j
        int == SubSeq(body, 1, dot - 1)
        frac == SubSeq(body, dot + 1, Len(body))
        kept == SubSeq(frac, 1, IF Len(frac) < FracDigits THEN Len(frac) ELSE FracDigits)
        mag == DigitsValue(int) * Scale + DigitsValue(kept) * Pow10(FracDigits - Len(kept))
    IN  IF s = <<"N", "a", "N">> THEN [ok |-> TRUE, val |-> NaN]
        ELSE IF /\ Cardinality(dots) <= 1
                /\ AllDigits(int) /\ AllDigits(frac)
                /\ Len(int) + Len(frac) > 0
             THEN [ok |-> TRUE, val |-> Flt(IF neg THEN -mag ELSE mag)]
             ELSE [ok |-> FALSE, val |-> Flt(0)]

\* math.Round(x*100) / 100: x to the nearest hundredth, halves away from
\* zero.  One hundredth is Scale / 100 units.
Round2(x) ==
    IF x.nan THEN NaN
    ELSE LET cent == Scale \div 100
             q == (Abs(x.v) + (cent \div 2)) \div cent
         IN  Flt(IF x.v < 0 THEN -(q * cent) ELSE q * cent)

\* x * 100 in float64; NaN propagates.
Times100(x) == IF x.nan THEN NaN ELSE Flt(x.v * 100)

\* x < 1.0 in the place of x <= 1.0
LessThanOne(x) == ~x.nan /\ x.v < Scale

\* x <= 1.0 (false for NaN, like every float64 comparison with NaN)
LeqOne(x) == ~x.nan /\ x.v <= Scale

\* x != 0.00 (true for NaN)
NonZero(x) == x.nan \/ x.v # 0

\* ------------------------------------------------------------------------
\* Errors: the format string of the fmt.Errorf call and the row number it
\* is given (0 when the message carries none).
\* ------------------------------------------------------------------------
NoErr == [msg |-> "", row |-> 0]

Err(msg, row) == [msg |-> msg, row |-> row]

\* ------------------------------------------------------------------------
\* The spreadsheet: a sequence of rows, the header row first; a row is a
\* sequence of cell texts and holds as many cells as the xlsx reader found.
\* ------------------------------------------------------------------------
Blank == <<>>
Spaces == <<" ">>
Header == <<<<"D">>, <<"T">>, <<"B">>, <<"R">>, <<"P">>>>

Row(d, t, b, r, p) == <<d, t, b, r, p>>

ValidRows ==
    { Row(<<"A">>, <<"l">>, Blank, Blank, <<"1", "5", "0">>),
      Row(<<"A">>, <<"l">>, <<"0">>, <<"0">>, <<"1", "5", "0">>),
      Row(<<" ", "B", " ">>, <<" ", "c">>, <<"2", "5", "0">>, <<"0", ".", "0", "5", "5">>,
          <<"3", "0", "0", " ">>),
      Row(<<"A">>, <<"l">>, Blank, <<"0", ".", "0", "5", "9", "9">>, <<"1", "5", "0">>),
      Row(<<"A">>, <<"l">>, Blank, <<"7", ".", "2", "5">>, <<"1", "5", "0">>),
      Row(<<"A">>, <<"l">>, Blank, <<"1">>, <<"1", "5", "0">>),
      Row(<<"A">>, <<"l">>, Blank, <<"1", ".", "1", "2", "5">>, <<"1", "5", "0">>),
      Row(<<"A">>, <<"l">>, <<"-", "2", "0">>, <<"-", "0", ".", "0", "5", "9", "9", "6">>,
          <<"-", "1", "5">>),
      <<<<"A">>, <<"l">>, Blank, <<"1", "5", "0">>, <<"1", "5", "0">>, <<"x">>>> }

BlankRows ==
    { <<>>,
      Row(Blank, Spaces, Blank, <<" ", "\t">>, Blank) }

FaultyRows ==
    { Row(Blank, <<"l">>, Blank, Blank, <<"1", "5", "0">>),
      Row(<<"A">>, Spaces, Blank, Blank, <<"1", "5", "0">>),
      Row(<<"A">>, <<"l">>, <<"2", "5", "0">>, Blank, Spaces),
      Row(Spaces, <<"l">>, <<"x">>, Blank, <<"x">>),
      Row(<<"A">>, <<"l">>, <<"x">>, <<"x">>, <<"1", "5", "0">>),
      Row(<<"A">>, <<"l">>, Blank, <<"1", ".", "x">>, <<"1", "5", "0">>),
      Row(<<"A">>, <<"l">>, Blank, Blank, <<"1", " ", "5">>),
      Row(<<"A">>, <<"l">>, Blank, Blank, <<"N", "a", "N">>) }

\* Rows the xlsx reader returns with fewer than five cells.
ShortRows ==
    { <<<<"A">>>>,
      <<Blank, <<"l">>>>,
      <<<<"A">>, <<"l">>, Blank, Blank>> }

RowChoices == ValidRows \cup BlankRows \cup FaultyRows \cup ShortRows

RECURSIVE SeqsUpTo(_, _)
SeqsUpTo(S, n) ==
    IF n = 0 THEN {<<>>}
    ELSE LET shorter == SeqsUpTo(S, n - 1)
         IN  shorter \cup {Append(q, x) : q \in {r \in shorter : Len(r) = n - 1}, x \in S}

\* The empty sheet, and a header row followed by up to MaxDataRows rows.
Sheets == {<<>>} \cup {<<Header>> \o rows : rows \in SeqsUpTo(RowChoices, MaxDataRows)}

\* ------------------------------------------------------------------------
\* The command line
\* ------------------------------------------------------------------------
\* const defaultGoal (its text shortened to one symbol)
DefaultGoal == <<"Provide a shortest-time payoff plan">>

\* A path is a text; it is absolute when it starts with "/".
NoPath == <<>>

\* filepath.Join of a cleaned directory and a name.
Join(dir, name) == IF dir = <<>> THEN name ELSE dir \o <<"/">> \o name

\* Values of -outDir: the literal text, and the directory filepath.Join
\* makes of it (Join cleans "./" away).
OutDirs ==
    { [text |-> "./", dir |-> <<>>],
      [text |-> "out", dir |-> <<"out">>],
      [text |-> "/srv/out", dir |-> <<"/", "srv", "/", "out">>] }

\* os.Getwd
Cwd == <<"/", "home">>

\* Readings of the clock when writeOutFile starts.
Clock(year, month, day, hour, minute, second) ==
    [year |-> year, month |-> month, day |-> day, hour |-> hour, minute |-> minute,
     second |-> second]

Times == { Clock(2025, 11, 5, 14, 3, 7), Clock(2025, 11, 5, 14, 3, 8), Clock(2026, 11, 5, 14, 3, 7) }

Flags(income, g, excludeThink, outDirText) ==
    [income |-> income, goal |-> g, excludeThink |-> excludeThink,
     outDir |-> CHOOSE d \in OutDirs : d.text = outDirText]

DefaultFlags == Flags(<<>>, DefaultGoal, TRUE, "./")

CustomGoal == <<"payoff debt quickly">>

\* The command lines the model runs.
CommandLines ==
    { DefaultFlags,
      Flags(<<"2", "0", "0", "0">>, DefaultGoal, FALSE, "./"),
      Flags(<<"2", ",", "0", "0", "0">>, CustomGoal, FALSE, "out"),
      Flags(<<"-", "5">>, CustomGoal, TRUE, "/srv/out"),
      Flags(<<"1", "2", "x">>, CustomGoal, TRUE, "./") }

\* What the user may type when asked for the income, and for the goal.
IncomeLines == { <<>>, <<"$", "1", ",", "2", "3", "4">>, <<"1", "2", "3", "4", ".", "5">>,
                 <<"N", "a", "N">> }

GoalLines == { <<>>, CustomGoal }

\* Standard input: the line the scanner of determineIncome returns and the
\* line the scanner of determineGoal returns.
Stdin(income, g) == [income |-> income, goal |-> g]

NothingTyped == Stdin(<<>>, <<>>)

\* What standard input may hold under command line f: a line is typed only
\* for a question the program asks.
Typed(f) ==
    { Stdin(income, g) :
        income \in IF f.income = <<>> THEN IncomeLines ELSE {<<>>},
        g \in IF f.goal = DefaultGoal THEN GoalLines ELSE {<<>>} }

\* ------------------------------------------------------------------------
\* State
\* ------------------------------------------------------------------------
VARIABLES
    pc,                   \* where main (and the function it is in) stands
    flags,                \* the command line: income, goal, excludeThink, outDir
    stdin,                \* the lines standard input holds: for the income, for the goal
    incomeFlt,            \* result of determineIncome
    goal,                 \* *goal after determineGoal
    openable,             \* whether xlsx.OpenFile can open the workbook
    sheet,                \* workBook.Sheets[0].Rows
    i,                    \* loop index of getObligations over sheet.Rows[1:]
    obligations,          \* the obligations collected so far / returned
    formattedObligations, \* result of formatObligations
    calls,                \* the requests the Ollama server has received, in order
    modelExists,          \* promptOllama's modelExists: the model is in the list
    stream,               \* the chunks the server has delivered to respFunc, in order
    exchange,             \* the Generate exchange: "none", "open", "ended" or "failed"
    responseBuilder,      \* the strings.Builder of promptOllama, then of main
    output,               \* the reply text writeOutFile took from responseBuilder
    outFilePath,          \* writeOutFile's path of the file it creates
    files,                \* the files writeOutFile left on disk: path and content
    console,              \* everything printed to standard output, in order
    err                   \* the error handed to checkErr

inputVars == <<flags, stdin, openable, sheet>>
ingestVars == <<i, obligations, formattedObligations>>
backendVars == <<calls, stream, exchange, responseBuilder>>
writerVars == <<output, outFilePath, files>>

vars == <<pc, flags, stdin, incomeFlt, goal, openable, sheet, i, obligations, formattedObligations,
          calls, modelExists, stream, exchange, responseBuilder, output, outFilePath, files, console, err>>

\* A checkErr that prints the error and returns.
CheckErrReturns(e, next) == next

\* checkErr: a non-nil error ends the process with status 1; the error is
\* printed first.
CheckErr(e, next) == IF e # NoErr THEN "exit1" ELSE next

Printed(out, e) == IF e # NoErr THEN Append(out, <<e.msg>>) ELSE out

\* ------------------------------------------------------------------------
\* determineIncome, determineGoal
\* ------------------------------------------------------------------------
\* strings.NewReplacer("$", " ", ",", "").Replace
RECURSIVE Replace(_)
Replace(s) ==
    IF s = <<>> THEN <<>>
    ELSE (IF Head(s) = "$" THEN <<" ">> ELSE IF Head(s) = "," THEN <<>> ELSE <<Head(s)>>)
         \o Replace(Tail(s))

\* determineIncome: without an -income flag the user is asked and a line is
\* read from standard input (readErr: whether scanner.Err() is set); then
\* "$" and "," are replaced and the text is parsed.
DetermineIncome ==
    /\ pc = "determineIncome"
    /\ \E readErr \in BOOLEAN :
        LET asked == flags.income = <<>>
            income == IF asked THEN stdin.income ELSE flags.income
            parsed == ParseFloat(Replace(income))
            e == IF asked /\ readErr THEN Err("error reading income response: %v", 0)
                 ELSE IF ~parsed.ok THEN Err("error formatting income: %v", 0)
                 ELSE NoErr
            out == IF asked
                       THEN Append(console,
                                   <<"What is your monthly income (after taxes & deductions)? ">>)
                       ELSE console
        IN  /\ asked \/ ~readErr
            /\ incomeFlt' = IF e = NoErr THEN parsed.val ELSE Flt(0)
            /\ err' = e
            /\ console' = Printed(IF asked /\ ~readErr THEN Append(out, <<"\n">>) ELSE out, e)
            /\ pc' = CheckErr(e, "determineGoal")
    /\ UNCHANGED <<inputVars, modelExists, goal, ingestVars, backendVars, writerVars>>

\* determineGoal: a -goal flag other than the default is taken as it is;
\* otherwise the user is asked, and an empty answer keeps the default.
DetermineGoal ==
    /\ pc = "determineGoal"
    /\ \E readErr \in BOOLEAN :
        LET asked == flags.goal = DefaultGoal
            line == stdin.goal
            e == IF asked /\ readErr THEN Err("error reading goal response: %v", 0) ELSE NoErr
            out == IF asked
                       THEN Append(console,
                                   <<"Default Goal: %s\nWhat is your financial goal? (Press enter for the default): ">>)
                       ELSE console
        IN  /\ asked \/ ~readErr
            /\ goal' = IF ~asked THEN flags.goal
                       ELSE IF readErr THEN <<>>
                       ELSE IF line = <<>> THEN DefaultGoal
                       ELSE line
            /\ err' = e
            /\ console' = Printed(IF asked /\ ~readErr THEN Append(out, <<"\n">>) ELSE out, e)
            /\ pc' = CheckErr(e, "getObligations")
    /\ UNCHANGED <<inputVars, modelExists, incomeFlt, ingestVars, backendVars, writerVars>>

\* ------------------------------------------------------------------------
\* getObligations
\* ------------------------------------------------------------------------
\* isRowEmpty
IsRowEmpty(row) == \A c \in 1..Len(row) : TrimSpace(row[c]) = <<>>

\* Interest-rate normalisation of getObligations.
NormalizeRate(r) ==
    LET scaled == IF LeqOne(r) THEN Times100(r) ELSE r
    IN  Round2(scaled)

\* One pass of the loop body over a non-empty row holding at least five
\* cells: [err |-> the error returned, ob |-> the obligation appended].
ReadRow(row, xlsxRowNumber) ==
    LET description == TrimSpace(row[1])
        obligationType == TrimSpace(row[2])
        remainingBalance == TrimSpace(row[3])
        interestRate == TrimSpace(row[4])
        monthlyPayment == TrimSpace(row[5])
        balance == ParseFloat(remainingBalance)
        rate == ParseFloat(interestRate)
        payment == ParseFloat(monthlyPayment)
        remainingBalanceFloat == IF remainingBalance # <<>> THEN balance.val ELSE Flt(0)
        interestRateFloat == IF interestRate # <<>> THEN NormalizeRate(rate.val) ELSE Flt(0)
        obligation == [Description |-> description,
                       Type |-> obligationType,
                       RemainingBalance |->
                           IF NonZero(remainingBalanceFloat) THEN remainingBalanceFloat ELSE Flt(0),
                       InterestRate |->
                           IF NonZero(interestRateFloat) THEN interestRateFloat ELSE Flt(0),
                       MonthlyPayment |-> payment.val]
        fail(msg) == [err |-> Err(msg, xlsxRowNumber), ob |-> obligation]
    IN  IF description = <<>>
            THEN fail("xlsx row %d, Description is required but is empty")
        ELSE IF obligationType = <<>>
            THEN fail("xlsx row %d, Type is required but is empty")
        ELSE IF monthlyPayment = <<>>
            THEN fail("xlsx row %d, Monthly Amount is required but is empty")
        ELSE IF remainingBalance # <<>> /\ ~balance.ok
            THEN fail("error formatting Remaining Balance from XLSX row %d: %v")
        ELSE IF interestRate # <<>> /\ ~rate.ok
            THEN fail("error formatting Interest Rate from XLSX row %d: %v")
        ELSE IF ~payment.ok
            THEN fail("error formatting Monthly Payment (required) from XLSX row %d: %v")
        ELSE [err |-> NoErr, ob |-> obligation]

\* getObligations up to the loop: open the workbook, take its first sheet
\* and refuse a sheet that has no data row.
GetObligationsOpen ==
    /\ pc = "getObligations"
    /\ LET e == IF ~openable THEN Err("error opening XLSX workbook: %v", 0)
                ELSE IF Len(sheet) < 2
                    THEN Err("no obligations (rows of data) exist in XLSX sheet", 0)
                ELSE NoErr
       IN  /\ err' = e
           /\ console' = Printed(console, e)
           /\ pc' = CheckErr(e, "getObligations.row")
    /\ i' = 0
    /\ obligations' = <<>>
    /\ UNCHANGED <<inputVars, modelExists, incomeFlt, goal, formattedObligations, backendVars, writerVars>>

\* xlsxRowNumber := i + 2
XlsxRowNumber(idx) == idx + 2

\* One iteration of the loop: row i of sheet.Rows[1:] is spreadsheet row
\* i + 2.  An empty row is skipped; a row that is not empty is indexed up to
\* Cells[4], which panics when the row holds fewer cells.
GetObligationsRow ==
    /\ pc = "getObligations.row"
    /\ i + 2 <= Len(sheet)
    /\ LET row == sheet[i + 2]
           xlsxRowNumber == XlsxRowNumber(i)
       IN  IF IsRowEmpty(row)
               THEN /\ i' = i + 1
                    /\ UNCHANGED <<pc, obligations, err, console>>
           ELSE IF Len(row) < 5
               THEN /\ pc' = "panic"
                    /\ UNCHANGED <<i, obligations, err, console>>
           ELSE LET r == ReadRow(row, xlsxRowNumber)
                IN  IF r.err # NoErr
                        THEN /\ err' = r.err
                             /\ console' = Printed(console, r.err)
                             /\ obligations' = <<>>
                             /\ pc' = CheckErr(r.err, "formatObligations")
                             /\ UNCHANGED i
                        ELSE /\ obligations' = Append(obligations, r.ob)
                             /\ i' = i + 1
                             /\ UNCHANGED <<pc, err, console>>
    /\ UNCHANGED <<inputVars, modelExists, incomeFlt, goal, formattedObligations, backendVars, writerVars>>

\* The loop is over: return obligations, nil.
GetObligationsReturn ==
    /\ pc = "getObligations.row"
    /\ i + 2 > Len(sheet)
    /\ err' = NoErr
    /\ pc' = CheckErr(NoErr, "formatObligations")
    /\ UNCHANGED <<inputVars, modelExists, incomeFlt, goal, ingestVars, backendVars, writerVars, console>>

\* ------------------------------------------------------------------------
\* formatObligations
\* ------------------------------------------------------------------------
RECURSIVE NatToStr(_)
NatToStr(n) == IF n < 10 THEN <<Digits[n + 1]>> ELSE Append(NatToStr(n \div 10), Digits[(n % 10) + 1])

RECURSIVE DropZeros(_)
DropZeros(s) == IF s # <<>> /\ s[Len(s)] = "0" THEN DropZeros(SubSeq(s, 1, Len(s) - 1)) ELSE s

\* The FracDigits digits of n, zeros in front included.
RECURSIVE FracStr(_, _)
FracStr(n, k) == IF k = 0 THEN <<>> ELSE Append(FracStr(n \div 10, k - 1), Digits[(n % 10) + 1])

\* encoding/json's text of a finite float64: the shortest decimal that
\* reads back as the value.
FormatFloat(x) ==
    LET frac == DropZeros(FracStr(Abs(x.v) % Scale, FracDigits))
    IN  (IF x.v < 0 THEN <<"-">> ELSE <<>>)
        \o NatToStr(Abs(x.v) \div Scale)
        \o (IF frac = <<>> THEN <<>> ELSE <<".">> \o frac)

Quoted(s) == <<"\"">> \o s \o <<"\"">>

\* json.Marshal(obligation): the fields in declaration order, the two
\* omitempty fields left out when they hold 0.
Marshal(o) ==
    <<"{", "\"description\":">> \o Quoted(o.Description)
    \o <<",", "\"type\":">> \o Quoted(o.Type)
    \o (IF NonZero(o.RemainingBalance)
            THEN <<",", "\"remaining_balance\":">> \o FormatFloat(o.RemainingBalance)
            ELSE <<>>)
    \o (IF NonZero(o.InterestRate)
            THEN <<",", "\"interest_rate\":">> \o FormatFloat(o.InterestRate)
            ELSE <<>>)
    \o <<",", "\"monthly_payment\":">> \o FormatFloat(o.MonthlyPayment)
    \o <<"}">>

\* json.Marshal refuses NaN (json.UnsupportedValueError).
MarshalFails(o) == o.RemainingBalance.nan \/ o.InterestRate.nan \/ o.MonthlyPayment.nan

RECURSIVE FormatAll(_)
FormatAll(obs) == IF obs = <<>> THEN <<>> ELSE Marshal(Head(obs)) \o FormatAll(Tail(obs))

FormatObligations ==
    /\ pc = "formatObligations"
    /\ LET bad == {k \in 1..Len(obligations) : MarshalFails(obligations[k])}
           first == CHOOSE k \in bad : \A j \in bad : k <= j
           e == IF bad # {}
                    THEN Err("error marshaling obligation XLSX row #%d: %v", (first - 1) + 2)
                    ELSE NoErr
       IN  /\ err' = e
           /\ formattedObligations' = IF bad # {} THEN <<>> ELSE FormatAll(obligations)
           /\ console' = Printed(console, e)
           /\ pc' = CheckErr(e, "promptOllama")
    /\ UNCHANGED <<inputVars, modelExists, incomeFlt, goal, i, obligations, backendVars, writerVars>>

\* ------------------------------------------------------------------------
\* promptOllama
\* ------------------------------------------------------------------------
\* fmt's %.2f: two decimals, the nearest, an exact half going to the even
\* neighbour; NaN prints as NaN.
Fmt2(x) ==
    IF x.nan THEN <<"N", "a", "N">>
    ELSE LET cent == Scale \div 100
             whole == Abs(x.v) \div cent
             rest == Abs(x.v) % cent
             up == 2 * rest > cent \/ (2 * rest = cent /\ whole % 2 = 1)
             cents == IF up THEN whole + 1 ELSE whole
         IN  (IF x.v < 0 THEN <<"-">> ELSE <<>>)
             \o NatToStr(cents \div 100) \o <<".">> \o FracStr(cents % 100, 2)

\* The text fmt.Sprintf makes of the prompt template; each piece of the
\* template is one symbol.
Prompt(income, formatted, g) ==
    <<"You are a cost-efficient financial planner.\n", "My monthly income is $">>
    \o Fmt2(income)
    \o <<".\n", "My obligations are ">>
    \o formatted
    \o <<".\n",
         "If no comperable leisure budget exists and at least 5 percent (x) of income remains, create a $x leisure expense.\n">>
    \o g
    \o <<".\n",
         "If no money is leftover, let the user know and assume this plan is for when additional funds are available.\n",
         "Provide concise, actionable short-term and long-term steps with exact dollar amounts.\n",
         "Briefly explain your reasoning for each step.\n",
         "Only suggest extra payments for loans and credit cards.\n",
         "Do not consider user preferences or alternative scenarios; only provide the most efficient solution.\n",
         "Do not enumerate or compare multiple strategies.\n",
         "Do not respond with formulas or calculations for the user to perform.\n",
         "Do not list monthly expenses or bills in your response; they are for context only.\n",
         "Ignore the concepts of principal contributions as-well as fixed vs variable interest rate types.\n",
         "Ensure no loan or credit card payment is counted or allocated more than once in any transactions or calculations.">>

Request(op, body) == [op |-> op, body |-> body]

\* What the server may send in one chunk (resp.Response).
ChunkChoices ==
    { <<>>,
      <<"A", "\n">>,
      <<"<", "t", "h", "i", "n", "k", ">", "r">>,
      <<"<", "/", "t", "h", "i", "n", "k", ">", " ", "B">> }

\* promptOllama up to the heartbeat: make the client and ask the server
\* whether it is there.
PromptOllamaConnect ==
    /\ pc = "promptOllama"
    /\ \E outcome \in {"noClient", "noServer", "ok"} :
        LET e == IF outcome = "noClient" THEN Err("error creating an Ollama client: %v", 0)
                 ELSE IF outcome = "noServer"
                     THEN Err("error connecting to the Ollama server, ensure it's running elsewhere with $ ollama serve", 0)
                 ELSE NoErr
        IN  /\ calls' = IF outcome = "noClient" THEN calls
                        ELSE Append(calls, Request("Heartbeat", <<>>))
            /\ err' = e
            /\ console' = Printed(console, e)
            /\ pc' = CheckErr(e, "promptOllama.list")
    /\ UNCHANGED <<inputVars, modelExists, incomeFlt, goal, ingestVars, stream, exchange, responseBuilder, writerVars>>

\* A promptOllama that pulls the model whether it is in the list or not.
PromptOllamaListPullsAnyway ==
    /\ pc = "promptOllama.list"
    /\ \E outcome \in {"failed", "installed", "missing"} :
        LET e == IF outcome = "failed"
                     THEN Err("error fetching the list of Ollama models: %v", 0)
                     ELSE NoErr
        IN  /\ calls' = Append(calls, Request("List", <<>>))
            /\ modelExists' = (outcome = "installed")
            /\ err' = e
            /\ console' = Printed(console, e)
            /\ pc' = CheckErr(e, "promptOllama.pull")
    /\ UNCHANGED <<inputVars, incomeFlt, goal, ingestVars, stream, exchange, responseBuilder, writerVars>>

\* client.List and the search for the model in the list.
PromptOllamaList ==
    /\ pc = "promptOllama.list"
    /\ \E outcome \in {"failed", "installed", "missing"} :
        LET e == IF outcome = "failed"
                     THEN Err("error fetching the list of Ollama models: %v", 0)
                     ELSE NoErr
        IN  /\ calls' = Append(calls, Request("List", <<>>))
            /\ modelExists' = (outcome = "installed")
            /\ err' = e
            /\ console' = Printed(console, e)
            /\ pc' = CheckErr(e, IF outcome = "installed" THEN "promptOllama.generate"
                                 ELSE "promptOllama.pull")
    /\ UNCHANGED <<inputVars, incomeFlt, goal, ingestVars, stream, exchange, responseBuilder, writerVars>>

\* client.Pull of a model that is not installed; progressFunc prints the
\* progress report (one report stands for all of them).
PromptOllamaPull ==
    /\ pc = "promptOllama.pull"
    /\ \E ok \in BOOLEAN :
        LET e == IF ok THEN NoErr ELSE Err("error installing AI model (if missing): %v", 0)
            out == Append(console, <<"Progress: %v ( %v / %v )\n">>)
        IN  /\ calls' = Append(calls, Request("Pull", <<>>))
            /\ err' = e
            /\ console' = Printed(out, e)
            /\ pc' = CheckErr(e, "promptOllama.generate")
    /\ UNCHANGED <<inputVars, modelExists, incomeFlt, goal, ingestVars, stream, exchange, responseBuilder, writerVars>>

\* The prompt is built and printed and client.Generate is called.
PromptOllamaGenerate ==
    /\ pc = "promptOllama.generate"
    /\ LET prompt == Prompt(incomeFlt, formattedObligations, goal)
       IN  /\ calls' = Append(calls, Request("Generate", prompt))
           /\ console' = console \o <<prompt \o <<"\n\n">>, <<"Communicating with Ollama...\n\n">>>>
    /\ exchange' = "open"
    /\ pc' = "promptOllama.stream"
    /\ UNCHANGED <<inputVars, modelExists, incomeFlt, goal, ingestVars, stream, responseBuilder, writerVars, err>>

\* A respFunc that puts the chunk in front of what it holds.
RespFuncPrepends ==
    /\ pc = "promptOllama.stream"
    /\ Len(stream) < MaxChunks
    /\ \E chunk \in ChunkChoices :
        /\ stream' = Append(stream, chunk)
        /\ console' = Append(console, chunk)
        /\ responseBuilder' = chunk \o responseBuilder
    /\ UNCHANGED <<pc, inputVars, modelExists, incomeFlt, goal, ingestVars, calls, exchange, writerVars, err>>

\* respFunc: a chunk arrives, is printed and is written to responseBuilder.
RespFunc ==
    /\ pc = "promptOllama.stream"
    /\ Len(stream) < MaxChunks
    /\ \E chunk \in ChunkChoices :
        /\ stream' = Append(stream, chunk)
        /\ console' = Append(console, chunk)
        /\ responseBuilder' = responseBuilder \o chunk
    /\ UNCHANGED <<pc, inputVars, modelExists, incomeFlt, goal, ingestVars, calls, exchange, writerVars, err>>

\* client.Generate returns nil: the stream is over and promptOllama returns
\* responseBuilder.
PromptOllamaReturn ==
    /\ pc = "promptOllama.stream"
    /\ err' = NoErr
    /\ console' = Append(console, <<"\n\nOllama response generated in %v.\n">>)
    /\ exchange' = "ended"
    /\ pc' = CheckErr(NoErr, "writeOutFile")
    /\ UNCHANGED <<inputVars, modelExists, incomeFlt, goal, ingestVars, calls, stream, responseBuilder, writerVars>>

\* A promptOllama that returns what it has collected, and no error, when
\* client.Generate fails.
PromptOllamaFailSwallowed ==
    /\ pc = "promptOllama.stream"
    /\ err' = NoErr
    /\ pc' = CheckErr(NoErr, "writeOutFile")
    /\ exchange' = "failed"
    /\ UNCHANGED <<inputVars, modelExists, incomeFlt, goal, ingestVars, calls, stream, responseBuilder,
                   writerVars, console>>

\* client.Generate returns an error, before, between or after chunks:
\* promptOllama returns strings.Builder{} and the error.
PromptOllamaFail ==
    /\ pc = "promptOllama.stream"
    /\ LET e == Err("error generating AI response: %v", 0)
       IN  /\ err' = e
           /\ console' = Printed(console, e)
           /\ pc' = CheckErr(e, "writeOutFile")
    /\ exchange' = "failed"
    /\ responseBuilder' = <<>>
    /\ UNCHANGED <<inputVars, modelExists, incomeFlt, goal, ingestVars, calls, stream, writerVars>>

\* ------------------------------------------------------------------------
\* writeOutFile
\* ------------------------------------------------------------------------
OpenMark == <<"<", "t", "h", "i", "n", "k", ">">>
CloseMark == <<"<", "/", "t", "h", "i", "n", "k", ">">>

\* s holds pat at position p
HasAt(s, p, pat) == p + Len(pat) - 1 <= Len(s) /\ SubSeq(s, p, p + Len(pat) - 1) = pat

\* The first position from p on that holds no white space (Len(s) + 1 when
\* there is none): where a greedy \s* started at p stops.
RECURSIVE SkipSpaces(_, _)
SkipSpaces(s, p) == IF p <= Len(s) /\ IsSpace(s[p]) THEN SkipSpaces(s, p + 1) ELSE p

\* A match that runs to the last closing mark: .* in the place of .*?
MatchEndGreedy(s) ==
    LET q == SkipSpaces(s, 1)
        closes == {r \in (q + Len(OpenMark))..Len(s) : HasAt(s, r, CloseMark)}
        r == CHOOSE x \in closes : \A y \in closes : y <= x
    IN  IF HasAt(s, q, OpenMark) /\ closes # {}
            THEN SkipSpaces(s, r + Len(CloseMark)) - 1
            ELSE 0

\* The last position of the match of (?s)\s*<think>.*?</think>\s* that
\* starts at position 1 of s, 0 when there is none: white space, the opening
\* mark, the shortest text up to a closing mark, white space.
MatchEnd(s) ==
    LET q == SkipSpaces(s, 1)
        closes == {r \in (q + Len(OpenMark))..Len(s) : HasAt(s, r, CloseMark)}
        r == CHOOSE x \in closes : \A y \in closes : x <= y
    IN  IF HasAt(s, q, OpenMark) /\ closes # {}
            THEN SkipSpaces(s, r + Len(CloseMark)) - 1
            ELSE 0

\* re.ReplaceAllString(output, ""): every match, leftmost first, is removed.
RECURSIVE StripThink(_)
StripThink(s) ==
    IF s = <<>> THEN <<>>
    ELSE IF MatchEnd(s) > 0 THEN StripThink(SubSeq(s, MatchEnd(s) + 1, Len(s)))
    ELSE <<Head(s)>> \o StripThink(Tail(s))

\* A replacement of the first occurrence alone.
RECURSIVE ReplaceFirst(_, _, _)
ReplaceFirst(s, old, new) ==
    IF s = <<>> THEN <<>>
    ELSE IF HasAt(s, 1, old) THEN <<new>> \o SubSeq(s, Len(old) + 1, Len(s))
    ELSE <<Head(s)>> \o ReplaceFirst(Tail(s), old, new)

\* strings.ReplaceAll(s, old, new), new being one symbol
RECURSIVE ReplaceAll(_, _, _)
ReplaceAll(s, old, new) ==
    IF s = <<>> THEN <<>>
    ELSE IF HasAt(s, 1, old) THEN <<new>> \o ReplaceAll(SubSeq(s, Len(old) + 1, Len(s)), old, new)
    ELSE <<Head(s)>> \o ReplaceAll(Tail(s), old, new)

AnnotateThink(s) ==
    ReplaceAll(ReplaceAll(s, OpenMark, "---\n### Started thinking"),
               CloseMark, "### Ended thinking\n---")

\* The reply as it is written to the file.
Processed(out, excludeThink) == IF excludeThink THEN StripThink(out) ELSE AnnotateThink(out)

\* fmt.Fprintf(outFile, "**Goal**: BQ%sBQ\n\n", goal), BQ standing for the
\* back quote of the format string.
GoalHeader(g) == <<"**Goal**: ", "BQ">> \o g \o <<"BQ", "\n", "\n">>

\* "Obligation Advice %d-%d %dh %dm %ds.md"
OutFileName(now) ==
    <<"Obligation Advice ">> \o NatToStr(now.month) \o <<"-">> \o NatToStr(now.day)
    \o <<" ">> \o NatToStr(now.hour) \o <<"h ">> \o NatToStr(now.minute) \o <<"m ">>
    \o NatToStr(now.second) \o <<"s.md">>

File(path, content) == [path |-> path, content |-> content]

\* os.Create leaves an empty file at path, whatever was there before.
Created(fs, path) == {f \in fs : f.path # path} \cup {File(path, <<>>)}

\* The file at path receives content.
Written(fs, path, content) == {f \in fs : f.path # path} \cup {File(path, content)}

\* writeOutFile up to os.Create: the name is made of the clock's reading and
\* the file is created, or cannot be.
WriteOutFileCreate ==
    /\ pc = "writeOutFile"
    /\ \E now \in Times, created \in BOOLEAN :
        LET path == Join(flags.outDir.dir, OutFileName(now))
            e == IF created THEN NoErr ELSE Err("could not create output file: %v", 0)
        IN  /\ outFilePath' = path
            /\ files' = IF created THEN Created(files, path) ELSE files
            /\ err' = e
            /\ console' = Printed(console, e)
            /\ pc' = CheckErr(e, "writeOutFile.write")
    /\ UNCHANGED <<inputVars, modelExists, incomeFlt, goal, ingestVars, backendVars, output>>

\* The rest of writeOutFile: the goal header and the processed reply are
\* written (the results of both writes are ignored: reached tells how far
\* the writes got), the path is made absolute when outDir is "./", which
\* needs the working directory, and the path is printed.
WriteOutFileWrite ==
    /\ pc = "writeOutFile.write"
    /\ \E reached \in {"nothing", "header", "all"}, getwd \in BOOLEAN :
        LET text == Processed(responseBuilder, flags.excludeThink)
            content == IF reached = "nothing" THEN <<>>
                       ELSE IF reached = "header" THEN GoalHeader(goal)
                       ELSE GoalHeader(goal) \o text
            e == IF flags.outDir.text = "./" /\ ~getwd
                     THEN Err("could not get the current working directory: %v", 0)
                     ELSE NoErr
            path == IF flags.outDir.text = "./" /\ getwd THEN Join(Cwd, outFilePath)
                    ELSE outFilePath
        IN  /\ flags.outDir.text = "./" \/ getwd
            /\ output' = responseBuilder
            /\ files' = Written(files, outFilePath, content)
            /\ outFilePath' = path
            /\ err' = e
            /\ console' = IF e = NoErr
                              THEN Append(console, <<"\n\nOutput file written to: ">> \o path \o <<"\n">>)
                              ELSE Printed(console, e)
            /\ pc' = CheckErr(e, "exit0")
    /\ UNCHANGED <<inputVars, modelExists, incomeFlt, goal, ingestVars, backendVars>>

\* ------------------------------------------------------------------------
\* main: one run of the program
\* ------------------------------------------------------------------------
\* The sheets the whole program is run on.
PipelineSheets ==
    { <<>>,
      <<Header>>,
      <<Header, Row(<<"A">>, <<"l">>, Blank, Blank, <<"1", "5", "0">>)>>,
      <<Header, <<>>,
        Row(<<" ", "B", " ">>, <<" ", "c">>, <<"2", "5", "0">>, <<"0", ".", "0", "5", "5">>,
            <<"3", "0", "0", " ">>)>>,
      <<Header, Row(Blank, <<"l">>, Blank, Blank, <<"1", "5", "0">>)>>,
      <<Header, Row(<<"A">>, <<"l">>, Blank, Blank, <<"N", "a", "N">>)>>,
      <<Header, <<<<"A">>>>>> }

Init ==
    /\ pc = "determineIncome"
    /\ flags \in CommandLines
    /\ stdin \in Typed(flags)
    /\ incomeFlt = Flt(0)
    /\ goal = flags.goal
    /\ openable \in BOOLEAN
    /\ sheet \in PipelineSheets
    /\ i = 0
    /\ obligations = <<>>
    /\ formattedObligations = <<>>
    /\ calls = <<>>
    /\ modelExists = FALSE
    /\ stream = <<>>
    /\ exchange = "none"
    /\ responseBuilder = <<>>
    /\ output = <<>>
    /\ outFilePath = NoPath
    /\ files = {}
    /\ console = <<>>
    /\ err = NoErr

Next ==
    \/ DetermineIncome
    \/ DetermineGoal
    \/ GetObligationsOpen
    \/ GetObligationsRow
    \/ GetObligationsReturn
    \/ FormatObligations
    \/ PromptOllamaConnect
    \/ PromptOllamaList
    \/ PromptOllamaPull
    \/ PromptOllamaGenerate
    \/ RespFunc
    \/ PromptOllamaReturn
    \/ PromptOllamaFail
    \/ WriteOutFileCreate
    \/ WriteOutFileWrite

Spec == Init /\ [][Next]_vars

\* ------------------------------------------------------------------------
\* Ingestion alone: getObligations and formatObligations over every sheet
\* ------------------------------------------------------------------------
InitIngest ==
    /\ pc = "getObligations"
    /\ flags = DefaultFlags
    /\ stdin = NothingTyped
    /\ incomeFlt = Flt(0)
    /\ goal = DefaultGoal
    /\ openable \in BOOLEAN
    /\ sheet \in Sheets
    /\ i = 0
    /\ obligations = <<>>
    /\ formattedObligations = <<>>
    /\ calls = <<>>
    /\ modelExists = FALSE
    /\ stream = <<>>
    /\ exchange = "none"
    /\ responseBuilder = <<>>
    /\ output = <<>>
    /\ outFilePath = NoPath
    /\ files = {}
    /\ console = <<>>
    /\ err = NoErr

NextIngest ==
    \/ GetObligationsOpen
    \/ GetObligationsRow
    \/ GetObligationsReturn
    \/ FormatObligations

IngestSpec == InitIngest /\ [][NextIngest]_vars

\* ------------------------------------------------------------------------
\* The output writer alone: writeOutFile over every reply, on a disk that
\* is empty or holds the artifact of an earlier run
\* ------------------------------------------------------------------------
\* A goal given with -goal that holds a line break.
TwoLineGoal == <<"pay off the card", "\n", "then save">>

\* The command lines of the runs whose output writer is followed; with
\* -income and -goal given, the program asks nothing.
WriterCommandLines ==
    { Flags(<<"2", "0", "0", "0">>, CustomGoal, TRUE, "./"),
      Flags(<<"2", "0", "0", "0">>, CustomGoal, FALSE, "./"),
      Flags(<<"2", "0", "0", "0">>, CustomGoal, TRUE, "out"),
      Flags(<<"2", "0", "0", "0">>, TwoLineGoal, FALSE, "out"),
      Flags(<<"2", "0", "0", "0">>, CustomGoal, FALSE, "/srv/out"),
      Flags(<<"2", "0", "0", "0">>, TwoLineGoal, TRUE, "/srv/out") }

\* What the server may send in one chunk of a reply the writer receives.
ReplyParts ==
    { <<"A">>,
      <<" ", "\n">>,
      OpenMark \o <<"r", "\n", "s">> \o CloseMark,
      <<"A">> \o OpenMark \o <<"r", "e", "a", "s", "o", "n", "i", "n", "g">> \o CloseMark \o <<"B">>,
      <<"A", " ">> \o OpenMark \o <<"r">> \o CloseMark \o <<"\n", "B">>,
      OpenMark,
      CloseMark,
      <<"<", "t", "h">> \o OpenMark \o <<"r">> \o CloseMark \o <<"i", "n", "k", ">">> }

\* responseBuilder after respFunc has received the chunks of chs.
RECURSIVE Collected(_)
Collected(chs) == IF chs = <<>> THEN <<>> ELSE Head(chs) \o Collected(Tail(chs))

\* The sheet of the runs whose output writer is followed.
WriterSheet == <<Header, Row(<<"A">>, <<"l">>, Blank, Blank, <<"1", "5", "0">>)>>

\* The reading of the clock when the earlier run made its file name.
EarlierNow == Clock(2025, 11, 5, 14, 3, 7)

\* The artifact an earlier run with -outDir d left: the goal header and the
\* reply, under the name made of the clock's reading.
EarlierArtifact(d) ==
    File(Join(d.dir, OutFileName(EarlierNow)), GoalHeader(CustomGoal) \o <<"A">>)

InitWriter ==
    /\ pc = "writeOutFile"
    /\ flags \in WriterCommandLines
    /\ stdin = NothingTyped
    /\ incomeFlt = ParseFloat(Replace(flags.income)).val
    /\ goal = flags.goal
    /\ openable = TRUE
    /\ sheet = WriterSheet
    /\ i = Len(sheet) - 1
    /\ obligations = <<ReadRow(sheet[2], XlsxRowNumber(0)).ob>>
    /\ formattedObligations = FormatAll(obligations)
    /\ stream \in SeqsUpTo(ReplyParts, MaxChunks)
    /\ calls = <<Request("Heartbeat", <<>>), Request("List", <<>>),
                 Request("Generate", Prompt(incomeFlt, formattedObligations, goal))>>
    /\ modelExists = TRUE
    /\ exchange = "ended"
    /\ responseBuilder = Collected(stream)
    /\ output = <<>>
    /\ outFilePath = NoPath
    /\ files \in {{}, {EarlierArtifact(flags.outDir)}}
    /\ console = <<Prompt(incomeFlt, formattedObligations, goal) \o <<"\n\n">>,
                   <<"Communicating with Ollama...\n\n">>>>
                 \o stream
                 \o <<<<"\n\nOllama response generated in %v.\n">>>>
    /\ err = NoErr

NextWriter ==
    \/ WriteOutFileCreate
    \/ WriteOutFileWrite

WriterSpec == InitWriter /\ [][NextWriter]_vars

\* ========================================================================
\* Properties of a run (Spec)
\* ========================================================================
GenerateErrMsg == "error generating AI response: %v"

\* The chunks of chs are console items k + 1 .. k + Len(chs), in order.
PrintedFrom(chs, k) ==
    /\ k + Len(chs) <= Len(console)
    /\ \A n \in 1..Len(chs) : console[k + n] = chs[n]

\* C1: once the backend has reported an error in the streamed exchange, the
\* run has ended with that error, writeOutFile has not run (no path, no
\* reply text taken, no file), and every chunk that was delivered is still
\* on the console, in order, right before the error message.
C1_GenerationErrorAborts ==
    exchange = "failed" =>
        /\ pc = "exit1"
        /\ err = Err(GenerateErrMsg, 0)
        /\ files = {} /\ outFilePath = NoPath /\ output = <<>>
        /\ console[Len(console)] = <<GenerateErrMsg>>
        /\ PrintedFrom(stream, Len(console) - 1 - Len(stream))

\* A run whose exchange failed between two chunks or after them.
C1_Witness == exchange = "failed" /\ pc = "exit1" /\ Len(stream) >= 1 /\ stream[1] # <<>>

\* C2: a run that ended in failure has left no file.
C2_NoArtifactOnFailure == pc = "exit1" => files = {}

\* The order of the positions of main.
Positions ==
    <<"determineIncome", "determineGoal", "getObligations", "getObligations.row",
      "formatObligations", "promptOllama", "promptOllama.list", "promptOllama.pull",
      "promptOllama.generate", "promptOllama.stream", "writeOutFile", "writeOutFile.write",
      "exit0", "exit1", "panic">>

Position(p) == CHOOSE n \in 1..Len(Positions) : Positions[n] = p

Stages == <<"determineIncome", "determineGoal", "getObligations", "formatObligations",
            "promptOllama", "writeOutFile">>

\* The stage a position belongs to, Len(Stages) + 1 for the ends of the run.
StageOf(p) ==
    IF p \in {"exit0", "exit1", "panic"} THEN Len(Stages) + 1
    ELSE CHOOSE n \in 1..Len(Stages) :
            /\ Position(Stages[n]) <= Position(p)
            /\ n = Len(Stages) \/ Position(p) < Position(Stages[n + 1])

Generates == {k \in 1..Len(calls) : calls[k].op = "Generate"}

\* C3: the stages run in the order ingestion, normalization, exchange,
\* output, none twice: main never moves backwards, it stays at a position
\* only inside the row loop and the chunk stream, it enters a stage only
\* from the stage right before it and with no error, an error ends the run
\* in the very step that raised it, nothing follows the end of the run, and
\* the backend receives at most one Generate request, exactly one when the
\* output writer runs.
C3_StagesInOrder ==
    /\ [][/\ Position(pc') >= Position(pc)
          /\ pc' = pc => pc \in {"getObligations.row", "promptOllama.stream"}
          /\ (StageOf(pc') # StageOf(pc) /\ StageOf(pc') <= Len(Stages)) =>
                (StageOf(pc') = StageOf(pc) + 1 /\ err' = NoErr /\ pc' = Stages[StageOf(pc')])
          /\ err' # NoErr => pc' = "exit1"
          /\ StageOf(pc) = Len(Stages) + 1 => pc' = pc]_vars
    /\ [](/\ Cardinality(Generates) <= 1
          /\ pc \in {"promptOllama.stream", "writeOutFile", "writeOutFile.write", "exit0"} =>
                Cardinality(Generates) = 1
          /\ Position(pc) < Position("promptOllama.stream") => Generates = {})

\* A run that went through every stage and ended well.
C3_Witness == pc = "exit0" /\ Cardinality(Generates) = 1 /\ Len(obligations) >= 1

\* The chunks of chs one after the other.
RECURSIVE Concat(_)
Concat(chs) == IF chs = <<>> THEN <<>> ELSE Head(chs) \o Concat(Tail(chs))

\* C4: while the stream is open, and until the output writer has taken the
\* reply, responseBuilder is the chunks delivered so far one after the
\* other in arrival order; the text the output writer takes is all of them.
C4_ReplyIsConcatenation ==
    /\ pc \in {"promptOllama.stream", "writeOutFile", "writeOutFile.write"} =>
          responseBuilder = Concat(stream)
    /\ pc = "exit0" => output = Concat(stream)

\* A reply of two different chunks reached the output writer.
C4_Witness ==
    /\ pc = "exit0"
    /\ Len(stream) >= 2 /\ stream[1] # <<>> /\ stream[2] # <<>> /\ stream[1] # stream[2]
    /\ output = stream[1] \o stream[2]

\* ========================================================================
\* Properties of ingestion (IngestSpec)
\* ========================================================================
\* t holds nothing but white space
BlankText(t) == \A k \in 1..Len(t) : IsSpace(t[k])

\* t without the white space around it
Core(t) ==
    LET inked == {k \in 1..Len(t) : ~IsSpace(t[k])}
    IN  IF inked = {} THEN <<>>
        ELSE SubSeq(t, CHOOSE a \in inked : \A k \in inked : a <= k,
                       CHOOSE b \in inked : \A k \in inked : k <= b)

\* t is a decimal number: an optional sign, digits, at most one point.
IsDecimalText(t) ==
    LET body == IF t # <<>> /\ Head(t) \in {"+", "-"} THEN Tail(t) ELSE t
    IN  /\ \A k \in 1..Len(body) : IsDigit(body[k]) \/ body[k] = "."
        /\ Cardinality({k \in 1..Len(body) : body[k] = "."}) <= 1
        /\ \E k \in 1..Len(body) : IsDigit(body[k])

AllBlank(row) == \A c \in 1..Len(row) : BlankText(row[c])

\* The columns of the sheet
DescriptionCol == 1
TypeCol == 2
BalanceCol == 3
RateCol == 4
PaymentCol == 5

RequiredMsg(col) ==
    IF col = DescriptionCol THEN "xlsx row %d, Description is required but is empty"
    ELSE IF col = TypeCol THEN "xlsx row %d, Type is required but is empty"
    ELSE "xlsx row %d, Monthly Amount is required but is empty"

ParseMsg(col) ==
    IF col = BalanceCol THEN "error formatting Remaining Balance from XLSX row %d: %v"
    ELSE IF col = RateCol THEN "error formatting Interest Rate from XLSX row %d: %v"
    ELSE "error formatting Monthly Payment (required) from XLSX row %d: %v"

MarshalMsg == "error marshaling obligation XLSX row #%d: %v"

\* The required cells the row holds that are blank.
BlankRequired(row) ==
    {c \in {DescriptionCol, TypeCol, PaymentCol} : c <= Len(row) /\ BlankText(row[c])}

\* The numeric cells the row holds that are neither blank nor a number.
NotNumbers(row) ==
    {c \in {BalanceCol, RateCol, PaymentCol} :
        c <= Len(row) /\ ~BlankText(row[c]) /\ ~IsDecimalText(Core(row[c]))}

\* The loop of getObligations is at a row that is not blank.
AtDataRow == pc = "getObligations.row" /\ i + 2 <= Len(sheet) /\ ~AllBlank(sheet[i + 2])

\* C5: when the loop reaches a non-blank row in which the description, the
\* type or the monthly payment is blank, getObligations fails with an error
\* that carries the number of that row and names a field that is missing,
\* and returns no obligations.
C5_MissingRequiredFieldNamed ==
    [][(AtDataRow /\ BlankRequired(sheet[i + 2]) # {}) =>
          /\ pc' = "exit1"
          /\ err'.row = i + 2
          /\ \E c \in BlankRequired(sheet[i + 2]) : err'.msg = RequiredMsg(c)
          /\ obligations' = <<>>]_vars

\* A row is at fault when ingestion has to refuse it.
AtFault(row) ==
    /\ ~AllBlank(row)
    /\ Len(row) >= PaymentCol
    /\ BlankRequired(row) # {} \/ NotNumbers(row) # {}

\* C6: a blank row is skipped and adds no obligation, and every error that
\* carries a row number carries the number of a row that is at fault,
\* however many blank rows come before it.
C6_BlankRowsKeepNumbering ==
    /\ [][(pc = "getObligations.row" /\ i + 2 <= Len(sheet) /\ AllBlank(sheet[i + 2])) =>
             (obligations' = obligations /\ i' = i + 1 /\ pc' = pc /\ err' = NoErr)]_vars
    /\ [](err.row # 0 =>
             /\ err.row \in 2..Len(sheet)
             /\ AtFault(sheet[err.row]))

\* C7: when the loop reaches a non-blank row whose required fields are
\* present and one of whose numeric cells is neither blank nor a number,
\* getObligations fails with an error that carries the number of that row
\* and names such a field, and returns no obligations.
C7_NonNumericFieldNamed ==
    [][(/\ AtDataRow
        /\ Len(sheet[i + 2]) >= PaymentCol
        /\ BlankRequired(sheet[i + 2]) = {}
        /\ NotNumbers(sheet[i + 2]) # {}) =>
          /\ pc' = "exit1"
          /\ err'.row = i + 2
          /\ \E c \in NotNumbers(sheet[i + 2]) : err'.msg = ParseMsg(c)
          /\ obligations' = <<>>]_vars

\* getObligations has returned its obligations and no error.
GetObligationsSucceeded ==
    \/ pc \in {"formatObligations", "promptOllama"}
    \/ pc = "exit1" /\ err.msg = MarshalMsg

\* The numbers of the rows of sh that are not blank, in ascending order.
RECURSIVE DataRowsFrom(_, _)
DataRowsFrom(sh, n) ==
    IF n > Len(sh) THEN <<>>
    ELSE (IF AllBlank(sh[n]) THEN <<>> ELSE <<n>>) \o DataRowsFrom(sh, n + 1)

DataRows(sh) == DataRowsFrom(sh, 2)

\* C8: when getObligations succeeds there is one obligation for each row
\* that is not blank, in the order of the rows, and each has the row's
\* description and type without the white space around them, neither empty,
\* and the monthly payment parsed from the row's cell, which is not blank.
C8_ObligationsWellFormed ==
    GetObligationsSucceeded =>
        /\ Len(obligations) = Len(DataRows(sheet))
        /\ \A k \in 1..Len(obligations) :
            LET o == obligations[k]
                row == sheet[DataRows(sheet)[k]]
            IN  /\ o.Description # <<>> /\ o.Description = Core(row[DescriptionCol])
                /\ o.Type # <<>> /\ o.Type = Core(row[TypeCol])
                /\ ~BlankText(row[PaymentCol])
                /\ ParseFloat(Core(row[PaymentCol])).ok
                /\ o.MonthlyPayment = ParseFloat(Core(row[PaymentCol])).val

\* Two rows with different descriptions, white space around the cells of
\* one of them, were read in their order, behind a blank row or not.
C8_Witness ==
    /\ pc = "formatObligations"
    /\ Len(obligations) = 2
    /\ obligations[1].Description = <<"B">> /\ obligations[2].Description = <<"A">>
    /\ obligations[1].MonthlyPayment = Flt(300 * Scale)

\* a and b are the same row but for an optional numeric cell that is blank
\* in a and holds a zero in b.
BlankVersusZero(a, b) ==
    /\ Len(a) = PaymentCol /\ Len(b) = PaymentCol
    /\ \A c \in {DescriptionCol, TypeCol, PaymentCol} : a[c] = b[c]
    /\ \A c \in {BalanceCol, RateCol} : a[c] = b[c] \/ (BlankText(a[c]) /\ Core(b[c]) = <<"0">>)
    /\ a # b

\* C9: a row whose optional cell is blank and the same row with a 0 in that
\* cell give records that differ, and serialized forms that differ.
C9_AbsentIsNotZero ==
    (/\ GetObligationsSucceeded
     /\ Len(sheet) = 3
     /\ BlankVersusZero(sheet[2], sheet[3])
     /\ Len(obligations) = 2) =>
        /\ obligations[1] # obligations[2]
        /\ Marshal(obligations[1]) # Marshal(obligations[2])

\* C10: the rate stored for a row whose rate cell holds a number r is the
\* hundredth nearest to r * 100 when r <= 1.0 and to r when r > 1.0; 0.055
\* is stored as 5.5, 0.0599 as 5.99, 7.25 as 7.25.
C10_RateScaledAndRounded ==
    [][(AtDataRow /\ Len(obligations') = Len(obligations) + 1
        /\ ~BlankText(sheet[i + 2][RateCol])) =>
          LET cell == Core(sheet[i + 2][RateCol])
              r == ParseFloat(cell).val.v
              x == IF r <= Scale THEN 100 * r ELSE r
              y == obligations'[Len(obligations')].InterestRate
              cent == Scale \div 100
          IN  /\ ~y.nan
              /\ y.v % cent = 0
              /\ 2 * Abs(y.v - x) <= cent
              /\ cell = <<"0", ".", "0", "5", "5">> => FormatFloat(y) = <<"5", ".", "5">>
              /\ cell = <<"0", ".", "0", "5", "9", "9">> => FormatFloat(y) = <<"5", ".", "9", "9">>
              /\ cell = <<"7", ".", "2", "5">> => FormatFloat(y) = <<"7", ".", "2", "5">>]_vars

\* Rates on both sides of 1.0 were normalised: 0.0599 became 5.99 and 7.25
\* stayed 7.25.
C10_Witness ==
    /\ pc = "formatObligations"
    /\ Len(obligations) = 2
    /\ FormatFloat(obligations[1].InterestRate) = <<"5", ".", "9", "9">>
    /\ FormatFloat(obligations[2].InterestRate) = <<"7", ".", "2", "5">>

\* x is a percentage: a number from 0 to 100.
InPercentRange(x) == ~x.nan /\ 0 <= x.v /\ x.v <= 100 * Scale

\* C11: when getObligations succeeds, every interest rate of the returned
\* obligations is a percentage between 0 and 100, both included.
C11_RateWithinPercentRange ==
    GetObligationsSucceeded =>
        \A k \in 1..Len(obligations) : InPercentRange(obligations[k].InterestRate)

\* C12: when getObligations succeeds, no returned obligation has a negative
\* monthly payment or a negative remaining balance, and none reaches the
\* prompt payload.
C12_AmountsNotNegative ==
    /\ GetObligationsSucceeded =>
          \A k \in 1..Len(obligations) :
              /\ obligations[k].MonthlyPayment.nan \/ obligations[k].MonthlyPayment.v >= 0
              /\ obligations[k].RemainingBalance.nan \/ obligations[k].RemainingBalance.v >= 0
    /\ \A k \in 1..Len(formattedObligations) : formattedObligations[k] # "-"

\* ========================================================================
\* Properties of the output writer (WriterSpec)
\* ========================================================================
\* s ends with t
EndsWith(s, t) == Len(t) <= Len(s) /\ SubSeq(s, Len(s) - Len(t) + 1, Len(s)) = t

\* The file of this run: the one the reported path names.
Artifact == CHOOSE f \in files : EndsWith(outFilePath, f.path)

\* What the file of this run holds behind the goal header.
Body == SubSeq(Artifact.content, Len(GoalHeader(goal)) + 1, Len(Artifact.content))

\* The write of the reply reached the file.
WroteBody == Len(Artifact.content) > Len(GoalHeader(goal))

\* t holds a raw marker
HasMark(t) == \E p \in 1..Len(t) : HasAt(t, p, OpenMark) \/ HasAt(t, p, CloseMark)

\* t without its white space
Ink(t) == SelectSeq(t, LAMBDA c : ~IsSpace(c))

\* s read from left to right as text and segments in turn, inside telling
\* whether the reading stands in a segment: ok when every opening marker
\* meets the next closing marker and no marker stands alone or in a segment,
\* out the text outside the segments.
RECURSIVE Segmented(_, _)
Segmented(s, inside) ==
    IF s = <<>> THEN [ok |-> ~inside, out |-> <<>>]
    ELSE IF HasAt(s, 1, OpenMark)
        THEN IF inside THEN [ok |-> FALSE, out |-> <<>>]
             ELSE Segmented(SubSeq(s, Len(OpenMark) + 1, Len(s)), TRUE)
    ELSE IF HasAt(s, 1, CloseMark)
        THEN IF inside THEN Segmented(SubSeq(s, Len(CloseMark) + 1, Len(s)), FALSE)
             ELSE [ok |-> FALSE, out |-> <<>>]
    ELSE LET rest == Segmented(Tail(s), inside)
         IN  [ok |-> rest.ok, out |-> IF inside THEN rest.out ELSE <<Head(s)>> \o rest.out]

\* The text of s outside its segments.
Outside(s) == Segmented(s, FALSE).out

\* The markers of s are properly paired and not nested: s is a text without
\* markers into which segments were put.
ProperlyPaired(s) == Segmented(s, FALSE).ok /\ ~HasMark(Outside(s))

ExampleReply ==
    <<"A">> \o OpenMark \o <<"r", "e", "a", "s", "o", "n", "i", "n", "g">> \o CloseMark \o <<"B">>

StartedThinking == "---\n### Started thinking"

EndedThinking == "### Ended thinking\n---"

\* s read once from left to right, each marker met giving its delimiter.
RECURSIVE Labelled(_)
Labelled(s) ==
    IF s = <<>> THEN <<>>
    ELSE IF HasAt(s, 1, OpenMark)
        THEN <<StartedThinking>> \o Labelled(SubSeq(s, Len(OpenMark) + 1, Len(s)))
    ELSE IF HasAt(s, 1, CloseMark)
        THEN <<EndedThinking>> \o Labelled(SubSeq(s, Len(CloseMark) + 1, Len(s)))
    ELSE <<Head(s)>> \o Labelled(Tail(s))

\* C14: with reasoning kept, whatever the reply, the body of the file holds
\* no raw marker and is the reply with the 'Started thinking' delimiter in
\* the place of every opening marker and the 'Ended thinking' delimiter in
\* the place of every closing marker, all other text kept as it was.
C14_ReasoningLabelled ==
    (pc = "exit0" /\ ~flags.excludeThink) =>
        /\ ~HasMark(Body)
        /\ WroteBody => Body = Labelled(output)

\* The reply A<think>reasoning</think>B, twice, was written with reasoning
\* kept: both delimiters stand in the body twice, around the reasoning.
C14_Witness ==
    /\ pc = "exit0" /\ ~flags.excludeThink
    /\ output = ExampleReply \o ExampleReply
    /\ Body = <<"A", StartedThinking, "r", "e", "a", "s", "o", "n", "i", "n", "g", EndedThinking, "B",
                "A", StartedThinking, "r", "e", "a", "s", "o", "n", "i", "n", "g", EndedThinking, "B">>

\* s holds t
Contains(s, t) == \E p \in 1..Len(s) : HasAt(s, p, t)

LineBreaks(c) == {k \in 1..Len(c) : c[k] = "\n"}

\* Both writes of writeOutFile reached the file.
WroteAll ==
    Len(Artifact.content) = Len(GoalHeader(goal)) + Len(Processed(output, flags.excludeThink))

\* C15: the file of a run that ended well is one line that holds the goal
\* text, then one empty line, then the processed reply and nothing else:
\* the reply starts on the third line whatever the goal holds.
C15_GoalLineBlankLineReply ==
    (pc = "exit0" /\ WroteAll) =>
        LET c == Artifact.content
            k == CHOOSE n \in LineBreaks(c) : \A m \in LineBreaks(c) : n <= m
        IN  /\ LineBreaks(c) # {}
            /\ Contains(SubSeq(c, 1, k - 1), goal)
            /\ k + 1 <= Len(c) /\ c[k + 1] = "\n"
            /\ SubSeq(c, k + 2, Len(c)) = Processed(output, flags.excludeThink)

\* C16: the name under which a run makes its file is the name of no file
\* another run left in the output directory, and no step of the run changes or
\* empties a file of another run: a file on disk stays as it is, but for the
\* run's own file receiving its content.
C16_RunsNeverCollide ==
    [][/\ (pc = "writeOutFile" /\ pc' = "writeOutFile.write") =>
             \A f \in files : f.path # outFilePath'
       /\ \A f \in files : f \in files' \/ (pc = "writeOutFile.write" /\ f.path = outFilePath)]_vars

IsAbsolute(p) == p # <<>> /\ Head(p) = "/"

\* The absolute path of the file the program knows as p.
Resolved(p) == IF IsAbsolute(p) THEN p ELSE Cwd \o <<"/">> \o p

\* C17: the path a run that ended well has reported is absolute, whatever
\* the output directory, and is the absolute path of a file the run made.
C17_ReportedPathAbsolute ==
    pc = "exit0" =>
        /\ IsAbsolute(outFilePath)
        /\ \E f \in files : Resolved(f.path) = outFilePath
        /\ console[Len(console)] = <<"\n\nOutput file written to: ">> \o outFilePath \o <<"\n">>

\* ========================================================================
\* Properties of the prompt and of the income (Spec)
\* ========================================================================
Persona == "You are a cost-efficient financial planner.\n"

LeisureClause ==
    "If no comperable leisure budget exists and at least 5 percent (x) of income remains, create a $x leisure expense.\n"

\* The guideline clauses of the template.
GuidelineClauses ==
    { LeisureClause,
      "If no money is leftover, let the user know and assume this plan is for when additional funds are available.\n",
      "Provide concise, actionable short-term and long-term steps with exact dollar amounts.\n",
      "Briefly explain your reasoning for each step.\n",
      "Only suggest extra payments for loans and credit cards.\n",
      "Do not consider user preferences or alternative scenarios; only provide the most efficient solution.\n",
      "Do not enumerate or compare multiple strategies.\n",
      "Do not respond with formulas or calculations for the user to perform.\n",
      "Do not list monthly expenses or bills in your response; they are for context only.\n",
      "Ignore the concepts of principal contributions as-well as fixed vs variable interest rate types.\n",
      "Ensure no loan or credit card payment is counted or allocated more than once in any transactions or calculations." }

\* C18: the prompt of the generation request starts with the persona, then
\* holds the income with two decimals, then the obligations payload as it
\* was formatted, then the goal as it was given, then every guideline
\* clause: no guideline clause stands before the end of the goal.
C18_PromptPartsInOrder ==
    \A n \in Generates :
        LET p == calls[n].body
            stated == <<"My monthly income is $">> \o Fmt2(incomeFlt) \o <<".\n">>
        IN  /\ p[1] = Persona
            /\ \E a, b, c \in 1..Len(p) :
                /\ HasAt(p, a, stated)
                /\ a + Len(stated) <= b /\ HasAt(p, b, formattedObligations)
                /\ b + Len(formattedObligations) <= c /\ HasAt(p, c, goal)
                /\ \A k \in 1..Len(p) : p[k] \in GuidelineClauses => k >= c + Len(goal)
            /\ \A g \in GuidelineClauses : \E k \in 1..Len(p) : p[k] = g

\* C19: a run whose income is negative or NaN has failed and has sent no
\* generation request: such an income is never carried past determineIncome.
C19_BadIncomeRejected ==
    (incomeFlt.nan \/ incomeFlt.v < 0) => (pc = "exit1" /\ Generates = {})

\* The income text determineIncome works on: the flag, or the line typed.
IncomeText == IF flags.income = <<>> THEN stdin.income ELSE flags.income

\* t is digits with "$" (in a typed line), "," and spaces among them.
Decorated(t) ==
    /\ \E k \in 1..Len(t) : IsDigit(t[k])
    /\ \A k \in 1..Len(t) :
        \/ IsDigit(t[k])
        \/ t[k] \in {",", " "}
        \/ t[k] = "$" /\ flags.income = <<>>

FormatIncomeMsg == "error formatting income: %v"

\* C20: an income text made of digits with "$" (typed at the prompt), ","
\* and spaces among them is not refused as a number, and the income
\* determineIncome returns for it is the number its digits spell: $1,234
\* gives 1234.
C20_DecoratedIncomeAccepted ==
    [][(pc = "determineIncome" /\ Decorated(IncomeText)) =>
          /\ err'.msg # FormatIncomeMsg
          /\ err' = NoErr =>
                incomeFlt' = Flt(DigitsValue(SelectSeq(IncomeText, IsDigit)) * Scale)]_vars

\* ========================================================================
\* What exclusion removes (WriterSpec)
\* ========================================================================
NotLineBreak(c) == c # "\n"

\* s holds a blank line: a line break with nothing but spaces and tabs
\* before it back to the start of s or to the line break before it.
HasBlankLine(s) ==
    \E k \in 1..Len(s) :
        /\ s[k] = "\n"
        /\ \E j \in 0..(k - 1) :
            /\ j = 0 \/ s[j] = "\n"
            /\ \A m \in (j + 1)..(k - 1) : s[m] \in {" ", "\t"}

\* C21: with reasoning excluded and a properly paired reply, whatever the
\* body loses besides the segments is line breaks (blank lines next to a
\* segment): every other character outside the segments, spaces included, is
\* in the body, in its order; and from a reply that holds no blank line
\* nothing but the segments is taken, so a space or a single line break
\* between a segment and the text next to it stays.
C21_OnlySegmentsAndBlankLinesRemoved ==
    (pc = "exit0" /\ flags.excludeThink /\ ProperlyPaired(output) /\ WroteBody) =>
        /\ SelectSeq(Body, NotLineBreak) = SelectSeq(Outside(output), NotLineBreak)
        /\ ~HasBlankLine(output) => Body = Outside(output)

\* ========================================================================
\* Short rows and empty sheets (IngestSpec)
\* ========================================================================
\* The messages of getObligations that carry a row number.
RowErrors ==
    {RequiredMsg(c) : c \in {DescriptionCol, TypeCol, PaymentCol}}
    \cup {ParseMsg(c) : c \in {BalanceCol, RateCol, PaymentCol}}

\* C22: the program never ends abnormally, and a pass of the loop of
\* getObligations over a row that is not blank, however many cells the row
\* holds, either adds one obligation and goes on to the next row or ends
\* getObligations with an error that carries the number of that row.
C22_EveryRowLengthHandled ==
    /\ [](pc # "panic")
    /\ [][AtDataRow =>
            \/ /\ pc' = pc /\ i' = i + 1 /\ Len(obligations') = Len(obligations) + 1
               /\ err' = NoErr
            \/ /\ pc' = "exit1" /\ err'.msg \in RowErrors /\ err'.row = i + 2
               /\ obligations' = <<>>]_vars

\* C23: when getObligations returns without error it returns at least one
\* obligation, so a sheet whose rows below the header are all blank is not
\* taken for a successful ingestion and promptOllama is never reached with
\* an empty payload.
C23_SuccessHoldsAnObligation ==
    /\ GetObligationsSucceeded => Len(obligations) >= 1
    /\ pc = "promptOllama" => formattedObligations # <<>>

\* ========================================================================
\* The order of the requests to the backend (Spec)
\* ========================================================================
\* The requests the server has received, by name.
Ops == [k \in 1..Len(calls) |-> calls[k].op]

\* The errors of promptOllama before the generation request.
SetupErrors ==
    { "error creating an Ollama client: %v",
      "error connecting to the Ollama server, ensure it's running elsewhere with $ ollama serve",
      "error fetching the list of Ollama models: %v",
      "error installing AI model (if missing): %v" }

\* C24: the server receives the requests in the order Heartbeat, List,
\* Pull, Generate, none twice, and Pull exactly when the model was not found
\* in the list: a generation request comes third, behind a list that held
\* the model, or fourth, behind the pull of a model the list did not hold;
\* and a run in which the client, the heartbeat, the list or the pull
\* failed has ended with that error, with no generation request sent and no
\* file made.
C24_GenerateAfterSetup ==
    /\ Ops \in { <<>>, <<"Heartbeat">>, <<"Heartbeat", "List">>,
                 <<"Heartbeat", "List", "Pull">>,
                 <<"Heartbeat", "List", "Generate">>,
                 <<"Heartbeat", "List", "Pull", "Generate">> }
    /\ (\E k \in 1..Len(Ops) : Ops[k] = "Pull") => ~modelExists
    /\ Ops = <<"Heartbeat", "List", "Generate">> => modelExists
    /\ pc = "promptOllama.pull" => ~modelExists
    /\ pc = "promptOllama.generate" =>
          (IF modelExists THEN Ops = <<"Heartbeat", "List">>
           ELSE Ops = <<"Heartbeat", "List", "Pull">>)
    /\ err.msg \in SetupErrors => (pc = "exit1" /\ Generates = {} /\ files = {})
    /\ Generates # {} => err.msg \notin SetupErrors

\* A run that pulled the model the list did not hold, then generated and
\* ended well.
C24_Witness ==
    /\ pc = "exit0"
    /\ Ops = <<"Heartbeat", "List", "Pull", "Generate">>
    /\ ~modelExists

====
